---- MODULE Spec2Model ----
(***************************************************************************)
(* A model of the DRM/KMS display diagnostic of src/drm.py: main(), the    *)
(* six gates of run_flow_kms() and the three runtime probes                *)
(* (capture_drm_trace, check_framebuffer_flips, check_psr_alpm_state).     *)
(*                                                                         *)
(* The kernel-exported state the program reads (sysfs, /dev/dri, module    *)
(* parameters, debugfs, tracefs) is the environment: every read draws its  *)
(* answer from a small set at the step that performs the read.  What the   *)
(* program prints is kept in `log`, one record per printed line.           *)
(***************************************************************************)
EXTENDS Integers, Sequences, FiniteSets, TLC

VARIABLES
    pc,        \* position of the single thread of control
    log,       \* the lines printed so far, as evidence records
    ret,       \* value returned by run_flow_kms()/main(), once it returned
    exc,       \* exception in flight ("none" when there is none)
    exitCode,  \* process exit status (-1 while the process runs)
    kms,       \* locals of run_flow_kms()
    tracefs,   \* state of /sys/kernel/tracing
    tr,        \* locals of capture_drm_trace()
    fin,       \* input of the function under study (function-level specifications)
    fout       \* its output

vars == <<pc, log, ret, exc, exitCode, kms, tracefs, tr, fin, fout>>

-----------------------------------------------------------------------------
(* Python values: None, int, bool and "some object".                        *)

PyNone == [t |-> "None", v |-> 0]

PyInt(n) == [t |-> "int", v |-> n]

PyBool(b) == [t |-> "bool", v |-> IF b THEN 1 ELSE 0]

PyObj == [t |-> "obj", v |-> 1]

\* Python truth value testing, as used by `if vb:`, `if flips:`, `if psr_alpm:`.
Truthy(x) ==
    CASE x.t = "None" -> FALSE
      [] x.t = "int"  -> x.v # 0
      [] x.t = "bool" -> x.v # 0
      [] OTHER        -> TRUE

-----------------------------------------------------------------------------
(* Evidence records.  sev is the bracketed tag of the printed line ("NONE" *)
(* for a line printed without a tag), gate the numbered section of         *)
(* run_flow_kms that printed it (0: before gate 1), subj the card and      *)
(* connector the line is about (-1: none), what the message.               *)

Entry(sev, gate, c, k, what) ==
    [sev |-> sev, gate |-> gate, subj |-> <<c, k>>, what |-> what]

Note(sev, gate, what) == Entry(sev, gate, -1, -1, what)

\* whether the record e is among the lines of seq, and the last line of seq
Has(seq, e) == \E i \in 1..Len(seq) : seq[i] = e

Last(seq) == seq[Len(seq)]

\* the INFO line of gate 5 about one connector also shows its status
ConnectorEntry(c, k, status) ==
    [sev |-> "INFO", gate |-> 5, subj |-> <<c, k>>, what |-> "connector",
     status |-> status]

-----------------------------------------------------------------------------
(* Environment domains.                                                     *)

\* indices N of the /sys/class/drm/cardN directories that may exist
CardIds == {2, 10}

\* connectors the system may have, over all cards
MaxConns == 1

\* names that may exist in /dev/dri
DevNodes ==
    { [pfx |-> "card", n |-> 0], [pfx |-> "renderD", n |-> 128],
      [pfx |-> "by-path", n |-> -1] }

\* what card/device/driver may be: a symlink, absent, or failing is_symlink()
DriverLinks == {"symlink", "absent", "oserror"}

\* whether device_identity() finds anything, and whether runtime_pm_info() does
IdentityFound == {TRUE}

PowerInfoFound == {TRUE}

\* a read_text() result that is None (missing or unreadable file)
None == "<None>"

\* text a module parameter file may hold, as characters (None: unreadable)
ParamTexts == {<<"0">>, <<"1">>, <<"N">>, <<"Y">>, <<>>}

\* the (module, parameter) pairs gate 4 reads, in the order it reads them
ModuleParams == <<"nvidia_drm.modeset", "i915.modeset", "amdgpu.dc", "radeon.modeset">>

\* what the four reads may return: None, or the file's text
ParamReads == [1..4 -> {<<None>>} \cup ParamTexts]

\* the default `events` of capture_drm_trace (drm_atomic_commit,
\* drm_vblank_event, drm_vblank_event_delivered), by position
NumEvents == 3

Events == 1..NumEvents

\* which of these events may have an enable file under events/drm
EventFileSets == {{}, {2, 3}, {1, 2, 3}}

\* how a write to a tracefs file may end
WriteOutcomes == {"ok", "PermissionError", "OSError"}

\* number of lines the trace file may hold after a capture
TraceLineCounts == {0, 3}

\* what a connector's attribute files may hold
StatusTexts == {"connected", "disconnected", "unknown", None}

\* number of lines of the modes file (-1: the read returned None)
ModesReads == {-1, 0, 2}

\* the edid blob: absent, stat() failing, or its size
EdidFiles == {"absent", "staterr", "0", "256"}

LinkStatusTexts == {None, "good", "Good", "bad"}

\* what debugfs dri holds: unreadable, or the indices of the directories
\* whose state file contains "active=1"
DebugIds == {0}

-----------------------------------------------------------------------------
(* Shared DRM helpers.                                                      *)

RECURSIVE Digits(_)
\* decimal digits of n: the name of cardN is "card" followed by them
Digits(n) == IF n < 10 THEN <<n>> ELSE Append(Digits(n \div 10), n % 10)

RECURSIVE LexLess(_, _)
\* string order of two digit strings, as sorted() orders Path objects
LexLess(s, t) ==
    IF s = <<>> THEN t # <<>>
    ELSE IF t = <<>> THEN FALSE
    ELSE IF s[1] # t[1] THEN s[1] < t[1]
    ELSE LexLess(Tail(s), Tail(t))

RECURSIVE SortedByName(_)
\* sorted(...) of the cardN directories with indices S
SortedByName(S) ==
    IF S = {} THEN <<>>
    ELSE LET m == CHOOSE x \in S : \A y \in S \ {x} : LexLess(Digits(x), Digits(y))
         IN  <<m>> \o SortedByName(S \ {m})

\* drm_cards(): the sorted listing filtered by card\d+
drm_cards(present) == SortedByName(present)

\* get_driver_for_card(): the link's target name, or None
get_driver_for_card(link) == IF link = "symlink" THEN "driverX" ELSE "None"

\* str.startswith on a /dev/dri name
StartsWith(node, prefix) == node.pfx = prefix

-----------------------------------------------------------------------------
(* Leaving run_flow_kms.                                                    *)

\* whether the module binds a global named `lines` (drm.py never assigns one)
LinesDefined == FALSE

\* sys.exit(main()): the exit status for what main() returned or raised.
\* None and 0 exit with 0, another int with itself, any other object (a
\* tuple) with 1; an uncaught exception with 1, an interrupt with 130.
SysExit(r, e) ==
    IF e # "none"
    THEN (IF e = "KeyboardInterrupt" THEN 130 ELSE 1)
    ELSE IF r = "0" \/ r = "None" THEN 0
    ELSE IF r = "2" THEN 2
    ELSE 1

\* main() hands on what the flow returned or raised, and the process ends
Leave(r, e) ==
    /\ ret' = r
    /\ exc' = e
    /\ exitCode' = SysExit(r, e)
    /\ pc' = "done"

\* `return 2, lines`: builds the tuple, which reads the name `lines`
ReturnTupleLines ==
    IF LinesDefined THEN Leave("tuple", "none") ELSE Leave("unset", "NameError")

\* a variant of the integer return that always hands back 2
ReturnAlwaysTwo(n) == Leave("2", "none")

\* `return 2` / `return 0`
ReturnInt(n) == Leave(IF n = 0 THEN "0" ELSE "2", "none")

\* an exception that run_flow_kms and main do not catch
Propagate(e) == Leave("unset", e)

Continue(next) ==
    /\ pc' = next
    /\ UNCHANGED <<ret, exc, exitCode>>

-----------------------------------------------------------------------------
NoInfo == [name |-> <<-1, -1>>, status |-> None, modes |-> -1, edid_bytes |-> None, link_status |-> None]

KmsInit ==
    [cards |-> <<>>, ci |-> 0, any_driver |-> FALSE, rd |-> <<>>, nconn |-> 0, k |-> 0,
     info |-> NoInfo, any_connected |-> FALSE, card |-> PyNone, vb |-> PyNone,
     flips |-> PyNone, psr_alpm |-> PyNone]

\* mounted: whether the tracefs root is a directory; files: the events whose
\* enable file exists; on: those holding "1"; writes: every write attempted
TracefsInit ==
    [mounted |-> TRUE, files |-> {}, on |-> {}, tracing_on |-> "1", writes |-> <<>>]

TrInit == [i |-> 0, line_count |-> 0, waits |-> 0]

Init ==
    /\ pc = "main"
    /\ log = <<>>
    /\ ret = "unset"
    /\ exc = "none"
    /\ exitCode = -1
    /\ kms = KmsInit
    /\ tracefs = TracefsInit
    /\ tr = TrInit
    /\ fin = <<>>
    /\ fout = <<>>

-----------------------------------------------------------------------------
(* main(): the kernel command line selects the flow.                        *)

Main ==
    /\ pc = "main"
    /\ \E nomodeset \in BOOLEAN, expect_kms \in BOOLEAN :
         LET l0 == Append(log, Note("INFO", 0, "kernel_cmdline")) IN
         IF nomodeset /\ expect_kms
         THEN /\ log' = Append(l0, Note("NONE", 0, "nomodeset_but_expected_kms"))
              /\ Leave("None", "none")
         ELSE IF nomodeset
         THEN /\ log' = l0
              /\ Continue("nomodeset")
         ELSE /\ log' = l0
              /\ Continue("gate1")
    /\ UNCHANGED <<kms, tracefs, tr, fin, fout>>

\* run_flow_nomodeset(): prints its findings, then calls read_klog, a name
\* the module does not define.
RunFlowNomodeset ==
    /\ pc = "nomodeset"
    /\ \E fb0 \in BOOLEAN, fb_sys \in BOOLEAN :
         log' = log \o <<Note("INFO", 0, "flow_nomodeset"),
                         Note(IF fb0 THEN "PASS" ELSE "FAIL", 0, "dev_fb0")>>
                    \o <<IF fb_sys
                          THEN Note("INFO", 0, "fb0_sysfs_info")
                          ELSE Note("FAIL", 0, "fb0_sysfs_missing")>>
    /\ Propagate("NameError")
    /\ UNCHANGED <<kms, tracefs, tr, fin, fout>>

-----------------------------------------------------------------------------
(* run_flow_kms(), gate 1: DRM registered.                                  *)

Gate1 ==
    /\ pc = "gate1"
    /\ \E present \in SUBSET CardIds, others \in BOOLEAN :
         LET l0 == Append(log, Note("INFO", 0, "flow_kms"))
             l1 == Append(l0, Note("INFO", 1, "sys_class_drm_entries"))
             found == drm_cards(present)
         IN  IF present = {} /\ ~others
             THEN /\ log' = Append(l0, Note("FAIL", 1, "sys_class_drm_empty"))
                  /\ ReturnTupleLines
                  /\ UNCHANGED kms
             ELSE IF found = <<>>
             THEN /\ log' = Append(l1, Note("FAIL", 1, "no_cardN"))
                  /\ ReturnTupleLines
                  /\ UNCHANGED kms
             ELSE /\ log' = Append(l1, Note("PASS", 1, "found_cards"))
                  /\ kms' = [kms EXCEPT !.cards = found, !.ci = 1, !.any_driver = FALSE]
                  /\ Continue("gate2")
    /\ UNCHANGED <<tracefs, tr, fin, fout>>

(* gate 2: driver bound, one step per card, then the verdict.               *)

Gate2Card ==
    /\ pc = "gate2"
    /\ kms.ci <= Len(kms.cards)
    /\ \E link \in DriverLinks, ident \in IdentityFound, pm \in PowerInfoFound :
         LET c == kms.cards[kms.ci]
             drv == get_driver_for_card(link)
             bound == drv # "None"
         IN  /\ log' = log
                    \o <<Entry(IF bound THEN "PASS" ELSE "FAIL", 2, c, -1,
                               IF bound THEN "driver_bound" ELSE "no_driver_symlink")>>
                    \o (IF ident THEN <<Entry("INFO", 2, c, -1, "identity")>> ELSE <<>>)
                    \o (IF pm THEN <<Entry("INFO", 2, c, -1, "runtime_pm")>> ELSE <<>>)
             /\ kms' = [kms EXCEPT !.ci = @ + 1, !.any_driver = @ \/ bound]
    /\ Continue("gate2")
    /\ UNCHANGED <<tracefs, tr, fin, fout>>

Gate2End ==
    /\ pc = "gate2"
    /\ kms.ci > Len(kms.cards)
    /\ IF ~kms.any_driver
       THEN /\ log' = Append(log, Note("FAIL", 2, "no_bound_driver"))
            /\ ReturnTupleLines
       ELSE /\ log' = log
            /\ Continue("gate3")
    /\ UNCHANGED <<kms, tracefs, tr, fin, fout>>

(* gate 3: /dev/dri nodes.                                                  *)

Gate3 ==
    /\ pc = "gate3"
    /\ \E dri_nodes \in SUBSET DevNodes :
         LET has_card == \E n \in dri_nodes : StartsWith(n, "card")
             has_render == \E n \in dri_nodes : StartsWith(n, "renderD")
             l1 == Append(log, Note("INFO", 3, "dev_dri_nodes"))
         IN  IF dri_nodes = {}
             THEN /\ log' = Append(log, Note("FAIL", 3, "dev_dri_empty"))
                  /\ ReturnTupleLines
             ELSE IF ~has_card
             THEN /\ log' = Append(l1, Note("FAIL", 3, "no_card_node"))
                  /\ ReturnTupleLines
             ELSE /\ log' = l1 \o <<Note("PASS", 3, "card_node"),
                                     IF has_render
                                     THEN Note("PASS", 3, "render_node")
                                     ELSE Note("FAIL", 3, "no_render_node")>>
                  /\ Continue("gate4_read")
    /\ UNCHANGED <<kms, tracefs, tr, fin, fout>>

(* gate 4: KMS gating module parameters.  One step reads the four          *)
(* parameters (module_param), one builds the list and decides.             *)

\* the list `params`: one "<mod>.<param>=<v>" per readable parameter
ParamList(rd) ==
    LET F[i \in 0..4] ==
          IF i = 0 THEN <<>>
          ELSE IF rd[i] = <<None>> THEN F[i - 1]
          ELSE Append(F[i - 1], [name |-> ModuleParams[i], v |-> rd[i]])
    IN  F[4]

\* p.startswith("nvidia_drm.modeset=0")
StartsWithNvidiaModeset0(p) ==
    /\ p.name = "nvidia_drm.modeset"
    /\ Len(p.v) >= 1
    /\ p.v[1] = "0"

Gate4Read ==
    /\ pc = "gate4_read"
    /\ \E rd \in ParamReads : kms' = [kms EXCEPT !.rd = rd]
    /\ Continue("gate4")
    /\ UNCHANGED <<log, tracefs, tr, fin, fout>>

Gate4 ==
    /\ pc = "gate4"
    /\ LET params == ParamList(kms.rd)
           l1 == Append(log, Note("INFO", 4, "modeset_params"))
       IN  IF \E i \in 1..Len(params) : StartsWithNvidiaModeset0(params[i])
           THEN /\ log' = Append(l1, Note("FAIL", 4, "nvidia_modeset_0"))
                /\ ReturnTupleLines
                /\ kms' = [kms EXCEPT !.rd = <<>>]
           ELSE /\ log' = l1
                /\ kms' = [kms EXCEPT !.rd = <<>>, !.ci = 1, !.any_connected = FALSE]
                /\ Continue("gate5")
    /\ UNCHANGED <<tracefs, tr, fin, fout>>

(* gate 5: connection / EDID / modes.  One step lists a card's connectors, *)
(* one reads a connector's attributes (connector_info), one classifies it. *)

\* number of connectors evaluated so far
ConnectorsSeen(l) == Cardinality({i \in 1..Len(l) : l[i].what = "connector"})

Gate5Card ==
    /\ pc = "gate5"
    /\ kms.ci <= Len(kms.cards)
    /\ \E n \in 0..(MaxConns - ConnectorsSeen(log)) :
         kms' = IF n = 0
                THEN [kms EXCEPT !.ci = @ + 1]
                ELSE [kms EXCEPT !.nconn = n, !.k = 1]
    /\ Continue(IF kms'.nconn >= kms'.k /\ kms'.k >= 1 /\ kms'.ci = kms.ci
                THEN "gate5_read" ELSE "gate5")
    /\ UNCHANGED <<log, tracefs, tr, fin, fout>>

\* connector_info(): a key is present only when its file could be read;
\* edid_bytes is the size as text, "?" when stat() fails
connector_info(c, k, status, modes, edid, link) ==
    [name |-> <<c, k>>,
     status |-> status,
     modes |-> modes,
     edid_bytes |-> (IF edid = "absent" THEN None
                     ELSE IF edid = "staterr" THEN "?" ELSE edid),
     link_status |-> link]

Gate5Read ==
    /\ pc = "gate5_read"
    /\ \E status \in StatusTexts, modes \in ModesReads,
          edid \in EdidFiles, link \in LinkStatusTexts :
         kms' = [kms EXCEPT !.info =
                   connector_info(kms.cards[kms.ci], kms.k, status, modes, edid, link)]
    /\ Continue("gate5_classify")
    /\ UNCHANGED <<log, tracefs, tr, fin, fout>>

\* dict.get(key) or "" / dict.get(key, default)
GetOr(v, default) == IF v = None THEN default ELSE v

\* str.lower() on the link-status texts
Lower(s) ==
    CASE s = "Good" -> "good"
      [] s = "GOOD" -> "good"
      [] s = "Bad"  -> "bad"
      [] OTHER      -> s

\* len(modes): number of lines of the modes text ("" when the key is missing)
ModesLen(ci) == IF ci.modes < 0 THEN 0 ELSE ci.modes

\* a variant of the findings that examines a connector whatever its status
ConnectorFindingsAnyStatus(ci) ==
    LET c == ci.name[1]
        k == ci.name[2]
        status == GetOr(ci.status, "")
        edid_bytes == GetOr(ci.edid_bytes, "0")
        link_status == GetOr(ci.link_status, "")
    IN  <<ConnectorEntry(c, k, status)>>
        \o (IF ModesLen(ci) = 0
            THEN <<Entry("FAIL", 5, c, k, "connected_no_modes")>> ELSE <<>>)
        \o (IF edid_bytes \in {"0", "", "?"}
            THEN <<Entry("WARN", 5, c, k, "edid_suspicious")>> ELSE <<>>)
        \o (IF link_status # "" /\ Lower(link_status) # "good"
            THEN <<Entry("FAIL", 5, c, k, "link_status")>> ELSE <<>>)

\* a variant of the findings that tags every connector issue WARN
ConnectorFindingsWarnOnly(ci) ==
    LET c == ci.name[1]
        k == ci.name[2]
        status == GetOr(ci.status, "")
        edid_bytes == GetOr(ci.edid_bytes, "0")
        link_status == GetOr(ci.link_status, "")
    IN  <<ConnectorEntry(c, k, status)>>
        \o (IF status = "connected" /\ ModesLen(ci) = 0
            THEN <<Entry("WARN", 5, c, k, "connected_no_modes")>> ELSE <<>>)
        \o (IF status = "connected" /\ edid_bytes \in {"0", "", "?"}
            THEN <<Entry("WARN", 5, c, k, "edid_suspicious")>> ELSE <<>>)
        \o (IF status = "connected" /\ link_status # "" /\ Lower(link_status) # "good"
            THEN <<Entry("WARN", 5, c, k, "link_status")>> ELSE <<>>)

\* the lines printed for one connector (lines 542-555)
ConnectorFindings(ci) ==
    LET c == ci.name[1]
        k == ci.name[2]
        status == GetOr(ci.status, "")
        edid_bytes == GetOr(ci.edid_bytes, "0")
        link_status == GetOr(ci.link_status, "")
    IN  <<ConnectorEntry(c, k, status)>>
        \o (IF status = "connected" /\ ModesLen(ci) = 0
            THEN <<Entry("FAIL", 5, c, k, "connected_no_modes")>> ELSE <<>>)
        \o (IF status = "connected" /\ edid_bytes \in {"0", "", "?"}
            THEN <<Entry("WARN", 5, c, k, "edid_suspicious")>> ELSE <<>>)
        \o (IF status = "connected" /\ link_status # "" /\ Lower(link_status) # "good"
            THEN <<Entry("FAIL", 5, c, k, "link_status")>> ELSE <<>>)

Gate5Classify ==
    /\ pc = "gate5_classify"
    /\ log' = log \o ConnectorFindings(kms.info)
    /\ kms' = [kms EXCEPT
                 !.any_connected = @ \/ GetOr(kms.info.status, "") = "connected",
                 !.info = NoInfo,
                 !.k = IF kms.k < kms.nconn THEN @ + 1 ELSE 0,
                 !.nconn = IF kms.k < kms.nconn THEN @ ELSE 0,
                 !.ci = IF kms.k < kms.nconn THEN @ ELSE @ + 1]
    /\ Continue(IF kms.k < kms.nconn THEN "gate5_read" ELSE "gate5")
    /\ UNCHANGED <<tracefs, tr, fin, fout>>

Gate5End ==
    /\ pc = "gate5"
    /\ kms.ci > Len(kms.cards)
    /\ log' = Append(log, IF kms.any_connected
                          THEN Note("PASS", 5, "at_least_one_connected")
                          ELSE Note("FAIL", 5, "no_connector_connected"))
    /\ Continue("gate6")
    /\ UNCHANGED <<kms, tracefs, tr, fin, fout>>

(* gate 6: runtime checking.                                                *)

\* list_dri_debug_cards(): sorted active indices; None on PermissionError
list_dri_debug_cards(readable, active) ==
    IF readable THEN [t |-> "list", v |-> active] ELSE [t |-> "None", v |-> {}]

\* pick_primary_card(): cards[0] if cards else None
pick_primary_card(readable, active) ==
    LET cs == list_dri_debug_cards(readable, active)
    IN  IF cs.t = "list" /\ cs.v # {}
        THEN PyInt(CHOOSE m \in cs.v : \A x \in cs.v : m <= x)
        ELSE PyNone

Gate6Pick ==
    /\ pc = "gate6"
    /\ \E readable \in BOOLEAN, active \in SUBSET DebugIds :
         LET card == pick_primary_card(readable, active)
             l0 == IF readable THEN log
                   ELSE Append(log, Note("NONE", 6, "debugfs_permission_denied"))
         IN  IF card = PyNone
             THEN /\ log' = Append(l0, Note("FAIL", 6, "no_debugfs_card"))
                  /\ kms' = [kms EXCEPT !.card = card]
                  /\ ReturnInt(2)
             ELSE /\ log' = l0
                  /\ kms' = [kms EXCEPT !.card = card]
                  /\ Continue("tr_call")
    /\ UNCHANGED <<tracefs, tr, fin, fout>>

-----------------------------------------------------------------------------
(* capture_drm_trace(duration_s=10), one step per statement that touches   *)
(* tracefs.  PermissionError is caught by the function; any other          *)
(* exception leaves it.                                                     *)

\* whether the module defines the class named TraceCaptureResult
TraceCaptureResultDefined == FALSE

\* one attempted write: the file (ev: which event's enable file, 0 if none),
\* the data, and how the write ended
Wr(file, ev, data, res) == [f |-> file, ev |-> ev, d |-> data, res |-> res]

\* the `except PermissionError` clause: print, return None
TracePermissionDenied ==
    /\ log' = Append(log, Note("NONE", 6, "permission_denied"))
    /\ kms' = [kms EXCEPT !.vb = PyNone]
    /\ Continue("vb_report")

\* _write(path, data) inside the try block, followed by `next`
TraceWrite(w, fs, next) ==
    /\ tracefs' = IF w.res = "ok"
                  THEN [fs EXCEPT !.writes = Append(@, w)]
                  ELSE [tracefs EXCEPT !.writes = Append(@, w)]
    /\ IF w.res = "ok"
       THEN Continue(next) /\ UNCHANGED <<log, kms>>
       ELSE IF w.res = "PermissionError"
       THEN TracePermissionDenied
       ELSE Propagate(w.res) /\ UNCHANGED <<log, kms>>

TraceCall ==
    /\ pc = "tr_call"
    /\ \E mounted \in BOOLEAN, files \in EventFileSets :
         IF ~mounted
         THEN /\ tracefs' = [tracefs EXCEPT !.mounted = FALSE]
              /\ IF TraceCaptureResultDefined
                 THEN /\ kms' = [kms EXCEPT !.vb = PyObj]
                      /\ Continue("vb_report")
                 ELSE /\ Propagate("NameError")
                      /\ UNCHANGED kms
         ELSE /\ tracefs' = [tracefs EXCEPT !.mounted = TRUE, !.files = files]
              /\ Continue("tr_stop")
              /\ UNCHANGED kms
    /\ tr' = TrInit
    /\ UNCHANGED <<log, fin, fout>>

TraceStop ==
    /\ pc = "tr_stop"
    /\ \E o \in WriteOutcomes :
         TraceWrite(Wr("tracing_on", 0, "0", o),
                    [tracefs EXCEPT !.tracing_on = "0"], "tr_clear")
    /\ UNCHANGED <<tr, fin, fout>>

TraceClear ==
    /\ pc = "tr_clear"
    /\ \E o \in WriteOutcomes :
         TraceWrite(Wr("trace", 0, "", o), tracefs, "tr_enable")
    /\ tr' = [tr EXCEPT !.i = 1]
    /\ UNCHANGED <<fin, fout>>

\* a variant that takes every enable file to exist
EnableFileAssumed(ev) == TRUE

\* _exists_enable_file(ev): the enable path when it exists
exists_enable_file(ev) == ev \in tracefs.files

TraceEnable ==
    /\ pc = "tr_enable"
    /\ tr.i <= NumEvents
    /\ IF exists_enable_file(tr.i)
       THEN \E o \in WriteOutcomes :
              TraceWrite(Wr("enable", tr.i, "1", o),
                         [tracefs EXCEPT !.on = @ \cup {tr.i}], "tr_enable")
       ELSE /\ Continue("tr_enable")
            /\ UNCHANGED <<log, kms, tracefs>>
    /\ tr' = [tr EXCEPT !.i = @ + 1]
    /\ UNCHANGED <<fin, fout>>

TraceStart ==
    /\ pc = "tr_enable"
    /\ tr.i > NumEvents
    /\ \E o \in WriteOutcomes :
         TraceWrite(Wr("tracing_on", 0, "1", o),
                    [tracefs EXCEPT !.tracing_on = "1"], "tr_sleep")
    /\ UNCHANGED <<tr, fin, fout>>

\* time.sleep(duration_s): returns, or the user interrupts it
TraceSleep ==
    /\ pc = "tr_sleep"
    /\ \E interrupted \in BOOLEAN :
         IF interrupted THEN Propagate("KeyboardInterrupt") ELSE Continue("tr_stop2")
    /\ tr' = [tr EXCEPT !.waits = @ + 1]
    /\ UNCHANGED <<log, kms, tracefs, fin, fout>>

TraceStop2 ==
    /\ pc = "tr_stop2"
    /\ \E o \in WriteOutcomes :
         TraceWrite(Wr("tracing_on", 0, "0", o),
                    [tracefs EXCEPT !.tracing_on = "0"], "tr_count")
    /\ UNCHANGED <<tr, fin, fout>>

\* count_trace_lines(): the number of lines, -1 when the read fails
TraceCount ==
    /\ pc = "tr_count"
    /\ \E n \in TraceLineCounts \cup {-1} : tr' = [tr EXCEPT !.line_count = n]
    /\ Continue("tr_cleanup")
    /\ UNCHANGED <<log, kms, tracefs, fin, fout>>

\* how a failing write ends
WriteFailures == WriteOutcomes \ {"ok"}

RECURSIVE DisableWrites(_, _, _, _)
\* the writes of "0" disable_all_drm_events() attempts, one per enable file;
\* those in `failed` end with the exception `how`
DisableWrites(files, failed, how, from) ==
    IF from > NumEvents THEN <<>>
    ELSE (IF from \in files
          THEN <<Wr("enable", from, "0", IF from \in failed THEN how ELSE "ok")>>
          ELSE <<>>)
         \o DisableWrites(files, failed, how, from + 1)

\* disable_all_drm_events(): writes "0" to every events/drm/*/enable and
\* ignores the writes that fail (`failed`), whatever the exception
disable_all_drm_events(fs, failed, how) ==
    [fs EXCEPT !.on = @ \cap failed,
               !.writes = @ \o DisableWrites(fs.files, failed, how, 1)]

TraceCleanup ==
    /\ pc = "tr_cleanup"
    /\ \E failed \in {{}, tracefs.files}, how \in WriteFailures :
         tracefs' = disable_all_drm_events(tracefs, failed, how)
    /\ Continue("tr_read")
    /\ UNCHANGED <<log, kms, tr, fin, fout>>

\* the excerpt read of the trace file, then `return line_count`
TraceRead ==
    /\ pc = "tr_read"
    /\ \E o \in WriteOutcomes :
         IF o = "ok"
         THEN /\ kms' = [kms EXCEPT !.vb = PyInt(tr.line_count)]
              /\ Continue("vb_report")
              /\ UNCHANGED log
         ELSE IF o = "PermissionError"
         THEN TracePermissionDenied
         ELSE Propagate(o) /\ UNCHANGED <<log, kms>>
    /\ UNCHANGED <<tracefs, tr, fin, fout>>

\* lines 568-572: report the vblank probe
VbReport ==
    /\ pc = "vb_report"
    /\ log' = Append(log, IF Truthy(kms.vb)
                          THEN Note("PASS", 6, "vblank_event_count")
                          ELSE Note("FAIL", 6, "no_vblank"))
    /\ Continue("flips")
    /\ UNCHANGED <<kms, tracefs, tr, fin, fout>>

-----------------------------------------------------------------------------
(* check_framebuffer_flips(card, samples, interval_s).                      *)
(* A state text is a sequence of tokens: n >= 0 stands for "fb=<n>", -1    *)
(* for any other token.  A read is [ok, text]; ok = FALSE is read_text()   *)
(* returning None.                                                          *)

ReadOk(text) == [ok |-> TRUE, text |-> text]

ReadNone == [ok |-> FALSE, text |-> <<>>]

\* whether the module defines the class named FlipResult
FlipResultDefined == FALSE

IsFbToken(t) == t >= 0

\* _extract_fb_ids_from_state(): the ids of all "fb=<id>" occurrences
extract_fb_ids_from_state(text) == SelectSeq(text, IsFbToken)

\* sorted(set(ids)): two such lists are equal exactly when the sets are
SortedSet(ids) == {ids[i] : i \in 1..Len(ids)}

RECURSIVE FlipLoopAgainstFirst(_, _, _, _, _)
\* a variant of the loop that omits `prev = cur`: every sample is compared
\* with the first one
FlipLoopAgainstFirst(reads, samples, done, prev, flips) ==
    IF done >= samples - 1
    THEN [flips |-> flips, waits |-> done, taken |-> done + 1]
    ELSE LET txt == reads[done + 2] IN
         IF ~txt.ok
         THEN [flips |-> flips, waits |-> done + 1, taken |-> done + 1]
         ELSE LET cur == SortedSet(extract_fb_ids_from_state(txt.text)) IN
              FlipLoopAgainstFirst(reads, samples, done + 1, prev,
                                   IF cur # prev THEN flips + 1 ELSE flips)

RECURSIVE FlipLoopReadBeforeSleep(_, _, _, _, _)
\* a variant of the loop that reads first and sleeps after a readable sample
FlipLoopReadBeforeSleep(reads, samples, done, prev, flips) ==
    IF done >= samples - 1
    THEN [flips |-> flips, waits |-> done, taken |-> done + 1]
    ELSE LET txt == reads[done + 2] IN
         IF ~txt.ok
         THEN [flips |-> flips, waits |-> done, taken |-> done + 1]
         ELSE LET cur == SortedSet(extract_fb_ids_from_state(txt.text)) IN
              IF cur # prev
              THEN FlipLoopReadBeforeSleep(reads, samples, done + 1, cur, flips + 1)
              ELSE FlipLoopReadBeforeSleep(reads, samples, done + 1, prev, flips)

RECURSIVE FlipLoop(_, _, _, _, _)
\* the loop `for _ in range(samples - 1)` after `done` iterations
FlipLoop(reads, samples, done, prev, flips) ==
    IF done >= samples - 1
    THEN [flips |-> flips, waits |-> done, taken |-> done + 1]
    ELSE LET txt == reads[done + 2] IN
         IF ~txt.ok
         THEN [flips |-> flips, waits |-> done + 1, taken |-> done + 1]
         ELSE LET cur == SortedSet(extract_fb_ids_from_state(txt.text)) IN
              IF cur # prev
              THEN FlipLoop(reads, samples, done + 1, cur, flips + 1)
              ELSE FlipLoop(reads, samples, done + 1, prev, flips)

\* reads[j] is what the j-th read of the state file returns.  The result:
\* the exception raised (if any), the value returned, the number of sleeps
\* and the number of samples read successfully.
check_framebuffer_flips(reads, samples) ==
    IF ~reads[1].ok
    THEN IF FlipResultDefined
         THEN [raised |-> "none", value |-> PyObj, waits |-> 0, taken |-> 0]
         ELSE [raised |-> "NameError", value |-> PyNone, waits |-> 0, taken |-> 0]
    ELSE LET r == FlipLoop(reads, samples, 0,
                           SortedSet(extract_fb_ids_from_state(reads[1].text)), 0)
         IN  [raised |-> "none", value |-> PyInt(r.flips), waits |-> r.waits,
              taken |-> r.taken]

\* samples=10 at the call in run_flow_kms
FlipSamples == 10

\* The sample sequences the pipeline is run against: the first u reads
\* succeed, and the framebuffer set alternates over the first k + 1 of them.
PipelineReads(k, u) ==
    [j \in 1..FlipSamples |->
        IF j > u THEN ReadNone
        ELSE IF (IF j <= k + 1 THEN j ELSE k + 1) % 2 = 1
        THEN ReadOk(<<-1, 1>>)
        ELSE ReadOk(<<-1, 2, 1>>)]

\* numbers of alternations and of readable samples the pipeline is run against
PipelineFlips == {0, 2}

PipelineReadable == {0, 1, 2, FlipSamples}

PipelineFlipOutcomes ==
    { check_framebuffer_flips(PipelineReads(k, u), FlipSamples) :
        k \in PipelineFlips, u \in PipelineReadable }

\* lines 574-578: run the flip probe and report it
FlipProbe ==
    /\ pc = "flips"
    /\ \E r \in PipelineFlipOutcomes :
         IF r.raised # "none"
         THEN /\ Propagate(r.raised)
              /\ UNCHANGED <<log, kms>>
         ELSE /\ kms' = [kms EXCEPT !.flips = r.value]
              /\ log' = Append(log, IF Truthy(r.value)
                                    THEN Note("PASS", 6, "framebuffer_flips_count")
                                    ELSE Note("FAIL", 6, "framebuffer_no_flips"))
              /\ Continue("psr")
    /\ UNCHANGED <<tracefs, tr, fin, fout>>

-----------------------------------------------------------------------------
(* check_psr_alpm_state(card).  A status text is a sequence of lines, a    *)
(* line a sequence of characters.                                           *)

UpperCase ==
    <<"A", "B", "C", "D", "E", "F", "G", "H", "I", "J", "K", "L", "M",
      "N", "O", "P", "Q", "R", "S", "T", "U", "V", "W", "X", "Y", "Z">>

LowerCase ==
    <<"a", "b", "c", "d", "e", "f", "g", "h", "i", "j", "k", "l", "m",
      "n", "o", "p", "q", "r", "s", "t", "u", "v", "w", "x", "y", "z">>

\* str.lower() on a line
LowerLine(line) ==
    [i \in 1..Len(line) |->
        IF \E j \in 1..26 : UpperCase[j] = line[i]
        THEN LowerCase[CHOOSE j \in 1..26 : UpperCase[j] = line[i]]
        ELSE line[i]]

\* `pat in l`
Contains(l, pat) ==
    \E i \in 1..(Len(l) - Len(pat) + 1) : SubSeq(l, i, i + Len(pat) - 1) = pat

\* any(x in l for x in pats)
AnyIn(l, pats) == \E x \in pats : Contains(l, x)

P_psr == <<"p", "s", "r">>

P_enabled == <<"e", "n", "a", "b", "l", "e", "d">>

P_enable == <<"e", "n", "a", "b", "l", "e">>

P_active == <<"a", "c", "t", "i", "v", "e">>

P_state == <<"s", "t", "a", "t", "e">>

P_yes == <<"y", "e", "s">>

P_inactive == <<"i", "n", "a", "c", "t", "i", "v", "e">>

P_not_active == <<"n", "o", "t", " ", "a", "c", "t", "i", "v", "e">>

P_alpm == <<"a", "l", "p", "m">>

P_on == <<"o", "n">>

P_disable == <<"d", "i", "s", "a", "b", "l", "e">>

P_off == <<"o", "f", "f">>

P_no == <<"n", "o">>

P_disabled == <<"d", "i", "s", "a", "b", "l", "e", "d">>

P_colon_1 == <<":", " ", "1">>

P_eq1 == <<"=", "1">>

P_colon_0 == <<":", " ", "0">>

P_eq0 == <<"=", "0">>

\* _bool_from_line(): "True", "False" or "None"
bool_from_line(line) ==
    LET l == LowerLine(line) IN
    IF AnyIn(l, {P_yes, P_enabled, P_colon_1, P_eq1})
       /\ ~AnyIn(l, {P_no, P_colon_0, P_eq0, P_disabled})
    THEN "True"
    ELSE IF AnyIn(l, {P_no, P_disabled, P_colon_0, P_eq0})
    THEN "False"
    ELSE "None"

\* the body of the loop over the lines (lines 302-322)
PsrLine(st, line) ==
    LET l == LowerLine(line)
        b == bool_from_line(line)
        en == IF Contains(l, P_psr)
                 /\ (Contains(l, P_enabled) \/ Contains(l, P_enable))
                 /\ b # "None" /\ st.psr_enabled = "None"
              THEN b ELSE st.psr_enabled
        inPsr == Contains(l, P_psr) /\ (Contains(l, P_active) \/ Contains(l, P_state))
        a1 == IF inPsr /\ Contains(l, P_active)
                 /\ (Contains(l, P_yes) \/ Contains(l, P_active))
              THEN "True" ELSE st.psr_active
        a2 == IF inPsr /\ (Contains(l, P_inactive) \/ Contains(l, P_not_active))
              THEN "False" ELSE a1
        inAlpm == Contains(l, P_alpm)
        h1 == IF inAlpm /\ (Contains(l, P_enable) \/ Contains(l, P_active)
                            \/ Contains(l, P_on))
              THEN "True" ELSE st.alpm_hint
        h2 == IF inAlpm /\ (Contains(l, P_disable) \/ Contains(l, P_off))
              THEN "False" ELSE h1
    IN  [psr_enabled |-> en, psr_active |-> a2, alpm_hint |-> h2]

RECURSIVE PsrParse(_, _)
PsrParse(st, lines) ==
    IF lines = <<>> THEN st ELSE PsrParse(PsrLine(st, Head(lines)), Tail(lines))

\* Python's `not x` for x in None / True / False
PyNot(x) == x # "True"

\* a variant of the probe that hands back None when the file is missing
PsrStateNoneWhenMissing(txt) ==
    IF ~txt.ok
    THEN [supported |-> FALSE, psr_enabled |-> "None", psr_active |-> "None",
          alpm_hint |-> "None", value |-> PyNone]
    ELSE LET st == PsrParse([psr_enabled |-> "None", psr_active |-> "None",
                             alpm_hint |-> "None"], txt.text)
         IN  [supported |-> TRUE, psr_enabled |-> st.psr_enabled,
              psr_active |-> st.psr_active, alpm_hint |-> st.alpm_hint,
              value |-> PyBool(PyNot(st.psr_active) /\ PyNot(st.alpm_hint))]

\* txt: [ok, text] as read_text() returned it.  The result: whether the file
\* was parsed, the three parsed fields, and the value returned to the caller.
check_psr_alpm_state(txt) ==
    IF ~txt.ok
    THEN [supported |-> FALSE, psr_enabled |-> "None", psr_active |-> "None",
          alpm_hint |-> "None", value |-> PyObj]
    ELSE LET st == PsrParse([psr_enabled |-> "None", psr_active |-> "None",
                             alpm_hint |-> "None"], txt.text)
         IN  [supported |-> TRUE, psr_enabled |-> st.psr_enabled,
              psr_active |-> st.psr_active, alpm_hint |-> st.alpm_hint,
              value |-> PyBool(PyNot(st.psr_active) /\ PyNot(st.alpm_hint))]

\* "Sink support: PSR = yes"
LineSinkSupport ==
    <<"S", "i", "n", "k", " ", "s", "u", "p", "p", "o", "r", "t", ":", " ", "P", "S", "R", " ", "=", " ", "y", "e", "s">>

\* "PSR mode: PSR1 enabled"
LinePsrEnabled ==
    <<"P", "S", "R", " ", "m", "o", "d", "e", ":", " ", "P", "S", "R", "1", " ", "e", "n", "a", "b", "l", "e", "d">>

\* "PSR mode: disabled"
LinePsrDisabled ==
    <<"P", "S", "R", " ", "m", "o", "d", "e", ":", " ", "d", "i", "s", "a", "b", "l", "e", "d">>

\* "Source PSR status: active"
LinePsrActive ==
    <<"S", "o", "u", "r", "c", "e", " ", "P", "S", "R", " ", "s", "t", "a", "t", "u", "s", ":", " ", "a", "c", "t", "i", "v", "e">>

\* "PSR status: inactive"
LinePsrInactive ==
    <<"P", "S", "R", " ", "s", "t", "a", "t", "u", "s", ":", " ", "i", "n", "a", "c", "t", "i", "v", "e">>

\* "ALPM: on"
LineAlpmOn ==
    <<"A", "L", "P", "M", ":", " ", "o", "n">>

\* "ALPM: off"
LineAlpmOff ==
    <<"A", "L", "P", "M", ":", " ", "o", "f", "f">>

\* "Busy frontbuffer bits: 0x0"
LineBusyBits ==
    <<"B", "u", "s", "y", " ", "f", "r", "o", "n", "t", "b", "u", "f", "f", "e", "r", " ", "b", "i", "t", "s", ":", " ", "0", "x", "0">>

PsrLines ==
    { LineSinkSupport, LinePsrEnabled, LinePsrDisabled, LinePsrActive, LinePsrInactive,
      LineAlpmOn, LineAlpmOff, LineBusyBits }

\* the status texts the probe is run against: up to two lines
PsrTexts == {<<>>} \cup {<<a>> : a \in PsrLines} \cup {<<a, b>> : a \in PsrLines, b \in PsrLines}

PsrOutcomes ==
    {check_psr_alpm_state(ReadNone)} \cup {check_psr_alpm_state(ReadOk(t)) : t \in PsrTexts}

\* lines 580-587: run the panel power probe, report it, return 0
PsrProbe ==
    /\ pc = "psr"
    /\ \E r \in PsrOutcomes :
         /\ kms' = [kms EXCEPT !.psr_alpm = r.value]
         /\ log' = log
                \o (IF r.supported THEN <<Note("INFO", 6, "psr_alpm_details")>> ELSE <<>>)
                \o <<IF Truthy(r.value)
                     THEN Note("PASS", 6, "psr_alpm_ok")
                     ELSE Note("FAIL", 6, "psr_alpm_abnormal")>>
    /\ ReturnInt(0)
    /\ UNCHANGED <<tracefs, tr, fin, fout>>

Next ==
    \/ Main
    \/ RunFlowNomodeset
    \/ Gate1
    \/ Gate2Card
    \/ Gate2End
    \/ Gate3
    \/ Gate4Read
    \/ Gate4
    \/ Gate5Card
    \/ Gate5Read
    \/ Gate5Classify
    \/ Gate5End
    \/ Gate6Pick
    \/ TraceCall
    \/ TraceStop
    \/ TraceClear
    \/ TraceEnable
    \/ TraceStart
    \/ TraceSleep
    \/ TraceStop2
    \/ TraceCount
    \/ TraceCleanup
    \/ TraceRead
    \/ VbReport
    \/ FlipProbe
    \/ PsrProbe

Spec == Init /\ [][Next]_vars

-----------------------------------------------------------------------------
(* check_framebuffer_flips on its own: every sample count up to MaxSamples *)
(* against every sequence of reads over a small set of state texts.        *)

MaxSamples == 3

\* state texts: no framebuffer, one, a repeated one, two, two in another order
StateTexts == {<<-1>>, <<-1, 1>>, <<1, 1>>, <<1, 2>>, <<2, -1, 1>>}

FlipReads == {ReadNone} \cup {ReadOk(t) : t \in StateTexts}

\* the first read happens whatever `samples` is
FlipInputs ==
    UNION { { [samples |-> n, reads |-> rd] :
                rd \in [1..(IF n = 0 THEN 1 ELSE n) -> FlipReads] } :
            n \in 0..MaxSamples }

InitFlips ==
    /\ pc = "flips_fn"
    /\ log = <<>>
    /\ ret = "unset"
    /\ exc = "none"
    /\ exitCode = -1
    /\ kms = KmsInit
    /\ tracefs = TracefsInit
    /\ tr = TrInit
    /\ fin \in FlipInputs
    /\ fout = <<>>

CheckFramebufferFlips ==
    /\ pc = "flips_fn"
    /\ fout' = check_framebuffer_flips(fin.reads, fin.samples)
    /\ pc' = "fn_done"
    /\ UNCHANGED <<log, ret, exc, exitCode, kms, tracefs, tr, fin>>

NextFlips == CheckFramebufferFlips

SpecFlips == InitFlips /\ [][NextFlips]_vars

\* the two probes that sleep, side by side: the pipeline (whose vblank probe
\* sleeps once per capture) and check_framebuffer_flips on its own
InitProbes == Init \/ InitFlips

NextProbes == Next \/ NextFlips

SpecProbes == InitProbes /\ [][NextProbes]_vars

-----------------------------------------------------------------------------
(* read_text(path) on its own.  A file is absent, present but failing to   *)
(* be read (permission or I/O error), or readable with some content, a     *)
(* sequence of characters.                                                  *)

\* max_bytes, the default of read_text
MaxBytes == 200000

TruncationMark == <<"\n", "<...truncated...>", "\n">>

IsSpace(ch) == ch \in {" ", "\n"}

RECURSIVE LStrip(_)
LStrip(t) == IF t # <<>> /\ IsSpace(Head(t)) THEN LStrip(Tail(t)) ELSE t

RECURSIVE RStrip(_)
RStrip(t) ==
    IF t # <<>> /\ IsSpace(t[Len(t)]) THEN RStrip(SubSeq(t, 1, Len(t) - 1)) ELSE t

\* str.strip()
Strip(t) == RStrip(LStrip(t))

\* read_text(): the stripped (and possibly truncated) content, or None when
\* read_bytes() raises, whatever it raises
read_text(file) ==
    IF file.state # "readable" THEN ReadNone
    ELSE LET data == IF Len(file.data) > MaxBytes
                     THEN SubSeq(file.data, 1, MaxBytes) \o TruncationMark
                     ELSE file.data
         IN  ReadOk(Strip(data))

\* longest content read_text is run against
MaxText == 4

FileChars == {" ", "a", "b"}

FileContents == UNION { [1..n -> FileChars] : n \in 0..MaxText }

Files ==
    { [state |-> st, data |-> <<>>] : st \in {"absent", "permission", "ioerror"} }
    \cup { [state |-> "readable", data |-> d] : d \in FileContents }

InitRead ==
    /\ pc = "read_fn"
    /\ log = <<>>
    /\ ret = "unset"
    /\ exc = "none"
    /\ exitCode = -1
    /\ kms = KmsInit
    /\ tracefs = TracefsInit
    /\ tr = TrInit
    /\ fin \in Files
    /\ fout = <<>>

ReadText ==
    /\ pc = "read_fn"
    /\ fout' = read_text(fin)
    /\ pc' = "fn_done"
    /\ UNCHANGED <<log, ret, exc, exitCode, kms, tracefs, tr, fin>>

NextRead == ReadText

SpecRead == InitRead /\ [][NextRead]_vars

-----------------------------------------------------------------------------
(* check_psr_alpm_state on its own, against a missing status file and      *)
(* every status text of up to two lines.                                    *)

PsrInputs == {ReadNone} \cup {ReadOk(t) : t \in PsrTexts}

InitPsr ==
    /\ pc = "psr_fn"
    /\ log = <<>>
    /\ ret = "unset"
    /\ exc = "none"
    /\ exitCode = -1
    /\ kms = KmsInit
    /\ tracefs = TracefsInit
    /\ tr = TrInit
    /\ fin \in PsrInputs
    /\ fout = <<>>

CheckPsrAlpmState ==
    /\ pc = "psr_fn"
    /\ fout' = check_psr_alpm_state(fin)
    /\ pc' = "fn_done"
    /\ UNCHANGED <<log, ret, exc, exitCode, kms, tracefs, tr, fin>>

NextPsr == CheckPsrAlpmState

SpecPsr == InitPsr /\ [][NextPsr]_vars

-----------------------------------------------------------------------------
(* The pipeline run against one scenario: one controller with a bound      *)
(* driver, /dev/dri holding a card node and a render node, one connector   *)
(* that is connected with 2 modes, an EDID of 256 bytes and link status    *)
(* good, an active debugfs card, a trace capture whose writes, wait and    *)
(* read succeed and that counts a positive number of lines, and 2 flips in *)
(* the 10 samples, with nvidia_drm.modeset not reading 0.  Everything else *)
(* (the other module parameters, event files, the PSR status text) is left *)
(* open.                                                                    *)

ScenarioStep ==
    /\ pc = "main" => pc' = "gate1"
    /\ pc = "gate1" => Len(kms'.cards) = 1
    /\ pc = "gate2" => kms'.any_driver
    /\ pc = "gate3" => Has(log', Note("PASS", 3, "render_node"))
    /\ pc = "gate4_read" => kms'.rd[1] # <<"0">>
    /\ pc = "gate5" => (ConnectorsSeen(log) = 0 <=> pc' = "gate5_read")
    /\ pc = "gate5_read" =>
         kms'.info = connector_info(kms.cards[kms.ci], 1, "connected", 2, "256", "good")
    /\ pc = "gate6" => pc' = "tr_call"
    /\ pc = "tr_call" => tracefs'.mounted
    /\ pc \in {"tr_stop", "tr_clear", "tr_enable", "tr_sleep", "tr_stop2", "tr_read"} =>
         (exc' = "none" /\ ~Has(log', Note("NONE", 6, "permission_denied")))
    /\ pc = "tr_count" => tr'.line_count > 0
    /\ pc = "flips" => (exc' = "none" /\ kms'.flips = PyInt(2))

NextScenario == Next /\ ScenarioStep

SpecScenario == Init /\ [][NextScenario]_vars

-----------------------------------------------------------------------------
(* Properties.                                                              *)

\* the six FAIL lines after which run_flow_kms executes `return 2, lines`
HardGateFailures ==
    { Note("FAIL", 1, "sys_class_drm_empty"), Note("FAIL", 1, "no_cardN"),
      Note("FAIL", 2, "no_bound_driver"), Note("FAIL", 3, "dev_dri_empty"),
      Note("FAIL", 3, "no_card_node"), Note("FAIL", 4, "nvidia_modeset_0") }

HardGateFailed == \E e \in HardGateFailures : Has(log, e)

\* the KMS flow ran
FlowKms == Has(log, Note("INFO", 0, "flow_kms"))

\* every card was inspected by gate 2 and none had a driver symlink
AllCardsUnbound ==
    /\ kms.cards # <<>>
    /\ \A i \in 1..Len(kms.cards) :
         Has(log, Entry("FAIL", 2, kms.cards[i], -1, "no_driver_symlink"))

\* C1: whenever one or more controllers exist and none has a bound driver,
\* once gate 2 is over the run has ended: run_flow_kms returned its failure
\* result, the last line printed is the terminal FAIL of gate 2, and no line
\* of a later gate (device nodes, parameters, connectors, probes) exists.
C1_NoBoundDriverIsTerminalFailure ==
    (AllCardsUnbound /\ pc # "gate2") =>
        /\ pc = "done"
        /\ exc = "none"
        /\ ret \in {"2", "tuple"}
        /\ Last(log) = Note("FAIL", 2, "no_bound_driver")
        /\ \A i \in 1..Len(log) : log[i].gate <= 2

\* C2: whenever the controller enumeration is empty, the run has ended right
\* after gate 1: run_flow_kms returned its failure result, the last line
\* printed is a FAIL of gate 1, and no line of a later gate exists.
C2_NoControllerIsTerminalFailure ==
    (FlowKms /\ kms.cards = <<>>) =>
        /\ pc = "done"
        /\ exc = "none"
        /\ ret \in {"2", "tuple"}
        /\ Last(log).sev = "FAIL"
        /\ Last(log).gate = 1
        /\ \A i \in 1..Len(log) : log[i].gate <= 1

\* C3: when a run of the KMS flow has ended, its exit code is 0 exactly when
\* no hard gate (1-4) failed and 2 exactly when one did; whatever gate 5 and
\* the runtime probes found does not enter into it.
C3_ExitCodeReflectsHardGatesOnly ==
    (pc = "done" /\ FlowKms) =>
        /\ (exitCode = 0) <=> ~HardGateFailed
        /\ (exitCode = 2) <=> HardGateFailed

\* the hard gates all passed: gate 5 gave its verdict
HardGatesPassed ==
    \/ Has(log, Note("PASS", 5, "at_least_one_connected"))
    \/ Has(log, Note("FAIL", 5, "no_connector_connected"))

ProbeReported(ok, bad) == Has(log, Note("PASS", 6, ok)) \/ Has(log, Note("FAIL", 6, bad))

\* C4: a run that passed every hard gate never aborts: when it has ended, the
\* three runtime probes have each been executed and reported, and
\* run_flow_kms has reached its normal end (return 0).
C4_NoAbortAfterHardGates ==
    (pc = "done" /\ HardGatesPassed) =>
        /\ ProbeReported("vblank_event_count", "no_vblank")
        /\ ProbeReported("framebuffer_flips_count", "framebuffer_no_flips")
        /\ ProbeReported("psr_alpm_ok", "psr_alpm_abnormal")
        /\ exc = "none"
        /\ ret = "0"

\* capture_drm_trace has been called and control has left it (by return or
\* by an exception)
TraceLeft == pc \in {"vb_report", "flips", "psr", "done"}

\* C5: once control has left capture_drm_trace by any path, every event
\* switch the call wrote "1" to has afterwards been written "0".
C5_EverySwitchWrittenBack ==
    TraceLeft =>
        \A i \in 1..Len(tracefs.writes) :
            LET w == tracefs.writes[i] IN
            (w.f = "enable" /\ w.d = "1" /\ w.res = "ok") =>
                \E j \in (i + 1)..Len(tracefs.writes) :
                    /\ tracefs.writes[j].f = "enable"
                    /\ tracefs.writes[j].ev = w.ev
                    /\ tracefs.writes[j].d = "0"

\* C6: when the tracing filesystem root is absent, capture_drm_trace returns
\* its 'unsupported' result and has written to no file.
C6_AbsentTracefsIsUnsupported ==
    ~tracefs.mounted =>
        /\ exc = "none"
        /\ kms.vb = PyObj
        /\ tracefs.writes = <<>>

\* the tracing filesystem is missing, or its first write was refused
TracefsUnavailable ==
    \/ ~tracefs.mounted
    \/ /\ tracefs.writes # <<>>
       /\ tracefs.writes[1].res = "PermissionError"

VblankEntries == {i \in 1..Len(log) : log[i].what \in {"vblank_event_count", "no_vblank"}}

\* C7: when the tracing filesystem is missing or not writable, once control
\* is past the vblank probe the log holds its outcome as an INFO line, and
\* no FAIL line for it.
C7_UnavailableTracingIsInfo ==
    (TracefsUnavailable /\ pc \in {"flips", "psr", "done"}) =>
        /\ \E i \in VblankEntries : log[i].sev = "INFO"
        /\ \A i \in VblankEntries : log[i].sev # "FAIL"

\* C8: a flip probe that counted zero flips leaves no FAIL line about the
\* absence of flips.
C8_ZeroFlipsIsNotFail ==
    kms.flips = PyInt(0) => ~Has(log, Note("FAIL", 6, "framebuffer_no_flips"))

\* the set of framebuffer ids a state text names
FbIds(text) == {text[i] : i \in {j \in 1..Len(text) : text[j] >= 0}}

\* number of samples a run with `samples` = n takes from `reads`: the first
\* read, then reads up to the n-th or the first unreadable one
SamplesTaken(reads, n) ==
    LET m == IF n < 1 THEN 1 ELSE n
    IN  CHOOSE t \in 0..m :
          /\ \A j \in 1..t : reads[j].ok
          /\ t = m \/ ~reads[t + 1].ok

\* number of consecutive pairs of samples taken whose framebuffer sets differ
DifferingPairs(reads, n) ==
    Cardinality({ j \in 1..(SamplesTaken(reads, n) - 1) :
                    FbIds(reads[j].text) # FbIds(reads[j + 1].text) })

FlipCountReported == pc = "fn_done" /\ fout.raised = "none" /\ fout.value.t = "int"

NewEntries == SubSeq(log', Len(log) + 1, Len(log'))

\* a link status that reads "good" in any letter case
IsGoodAnyCase(s) == s \in {"good", "Good", "GOOD"}

\* the step classifies a connector whose status is "connected"
ClassifiesConnected == pc = "gate5_classify" /\ kms.info.status = "connected"

\* what C10 requires of the step that classifies a connected connector;
\* good(s) says which link-status texts count as 'good'
ConnectedClassification(good(_)) ==
    LET ci == kms.info
        c == ci.name[1]
        k == ci.name[2]
        noModes == ci.modes <= 0
        badEdid == ci.edid_bytes \in {"0", "", "?"}
        badLink == ci.link_status # None /\ ~good(ci.link_status)
        issues == {i \in 1..Len(NewEntries) : NewEntries[i].sev \in {"FAIL", "WARN"}}
    IN  /\ noModes => Has(NewEntries, Entry("FAIL", 5, c, k, "connected_no_modes"))
        /\ badEdid => Has(NewEntries, Entry("WARN", 5, c, k, "edid_suspicious"))
        /\ badLink => Has(NewEntries, Entry("FAIL", 5, c, k, "link_status"))
        /\ (~noModes /\ ~badEdid /\ ci.edid_bytes # None /\ ~badLink) => issues = {}
        /\ kms'.any_connected

\* the verdict of gate 5 after a connected connector was seen
ConnectedVerdict ==
    (pc = "gate5" /\ pc' = "gate6" /\ kms.any_connected) =>
        Last(log') = Note("PASS", 5, "at_least_one_connected")

IsLiterallyGood(s) == s = "good"

ClassifiesDisconnected == pc = "gate5_classify" /\ kms.info.status = "disconnected"

AllSeenDisconnected ==
    /\ pc \notin {"gate5", "gate5_read", "gate5_classify"}
    /\ \E i \in 1..Len(log) : log[i].what = "connector"
    /\ \A i \in 1..Len(log) :
         log[i].what = "connector" => log[i].status = "disconnected"

NoCardNodeFound ==
    /\ kms.any_driver
    /\ pc \notin {"gate2", "gate3"}
    /\ ~Has(log, Note("PASS", 3, "card_node"))

\* C12: when a driver is bound but /dev/dri holds no name starting with
\* "card" (it is empty, or holds render-only names), the run has ended right
\* after gate 3: run_flow_kms returned its failure result, the last line
\* printed is a FAIL of gate 3, and no line of gates 4-6 exists.
C12_NoCardNodeIsTerminalFailure ==
    NoCardNodeFound =>
        /\ pc = "done"
        /\ exc = "none"
        /\ ret \in {"2", "tuple"}
        /\ Last(log).sev = "FAIL"
        /\ Last(log).gate = 3
        /\ \A i \in 1..Len(log) : log[i].gate <= 3

\* the decision step of gate 4 ends the run with the terminal FAIL and the
\* failure result
Gate4Terminal ==
    /\ Last(log') = Note("FAIL", 4, "nvidia_modeset_0")
    /\ pc' = "done"
    /\ exc' = "none"
    /\ ret' \in {"2", "tuple"}

\* the decision step of gate 4 records INFO lines only and goes on to gate 5
Gate4Continues ==
    /\ \A i \in 1..Len(NewEntries) : NewEntries[i].sev = "INFO"
    /\ pc' = "gate5"

\* C13: at gate 4, when the nvidia_drm modeset parameter reads 0 the run ends
\* with the terminal FAIL and the failure result before any connector is
\* evaluated; for every other combination of readable or unreadable
\* parameters gate 4 records INFO only and evaluation continues with gate 5.
C13_OnlyNvidiaModeset0IsTerminal ==
    [][ pc = "gate4" =>
          IF kms.rd[1] = <<"0">> THEN Gate4Terminal ELSE Gate4Continues ]_vars

PassAtGate(g) == \E i \in 1..Len(log) : log[i].gate = g /\ log[i].sev = "PASS"

NoFailEntry == \A i \in 1..Len(log) : log[i].sev # "FAIL"

\* C14 (gate 4 recording INFO only, and the panel power probe finding
\* neither PSR active nor an ALPM hint): the scenario run ends with exit code
\* 0; gate 4 records no PASS line; and when the panel power probe reports
\* PASS the log holds no FAIL line and at least one PASS line for each of
\* gates 1, 2, 3, 5 and 6.
C14_ScenarioSucceeds ==
    pc = "done" =>
        /\ exc = "none"
        /\ ret = "0"
        /\ exitCode = 0
        /\ ~PassAtGate(4)
        /\ \E i \in 1..Len(log) : log[i].gate = 4 /\ log[i].sev = "INFO"
        /\ \A g \in {1, 2, 3, 5, 6} : PassAtGate(g)
        /\ Has(log, Note("PASS", 6, "vblank_event_count"))
        /\ Has(log, Note("PASS", 6, "framebuffer_flips_count"))
        /\ Truthy(kms.psr_alpm) => NoFailEntry

\* C14 as stated: the scenario run ends with exit code 0, zero FAIL lines
\* and at least one PASS line for each of the six gates.
C14_ScenarioPassAtEveryGate ==
    pc = "done" =>
        /\ exitCode = 0
        /\ NoFailEntry
        /\ \A g \in 1..6 : PassAtGate(g)

\* the scenario run has ended with the three probes reporting PASS
C14_Witness ==
    /\ pc = "done"
    /\ kms.flips = PyInt(2)
    /\ Truthy(kms.vb)
    /\ Has(log, Note("PASS", 6, "psr_alpm_ok"))
    /\ \E c \in CardIds : Has(log, ConnectorEntry(c, 1, "connected"))

\* what check_psr_alpm_state hands back when the status file is absent
PsrAbsent == check_psr_alpm_state(ReadNone)

PsrEntries == {i \in 1..Len(log) : log[i].what \in {"psr_alpm_details", "psr_alpm_ok", "psr_alpm_abnormal"}}

\* C15: with the PSR status file absent, check_psr_alpm_state reports
\* "unsupported" (a result whose `supported` is false and whose three fields
\* are unknown), and once the orchestrator has that result its log holds no
\* FAIL line for the panel power probe.
C15_AbsentPsrIsUnsupportedNotFail ==
    /\ ~PsrAbsent.supported
    /\ PsrAbsent.psr_enabled = "None"
    /\ PsrAbsent.psr_active = "None"
    /\ PsrAbsent.alpm_hint = "None"
    /\ kms.psr_alpm = PsrAbsent.value =>
         /\ PsrEntries # {}
         /\ \A i \in PsrEntries : log[i].sev # "FAIL"

\* the run ended after a panel power probe that found no status file
C15_Witness ==
    /\ pc = "done"
    /\ kms.psr_alpm = PsrAbsent.value
    /\ Last(log) = Note("PASS", 6, "psr_alpm_ok")

PsrFields == {"psr_enabled", "psr_active", "alpm_hint"}

\* the status file was read and parsed, and the text held no evidence for
\* field f
PsrFieldUnknown(f) == pc = "fn_done" /\ fin.ok /\ fout[f] = "None"

\* C16: when the status text holds no evidence for a field, the value handed
\* to the caller shows that field as unknown: no status text whose evidence
\* makes the field true or false hands the caller the same value, so that
\* the caller's verdict is not the one computed for a known field.
C16_UnknownReachesCaller ==
    \A f \in PsrFields :
        PsrFieldUnknown(f) =>
            \A t \in PsrTexts :
                LET o == check_psr_alpm_state(ReadOk(t)) IN
                o[f] # "None" => o.value # fout.value

\* C17: the controllers drm_cards returned (the list gate 1 keeps) are in
\* ascending order of their numeric index.
C17_CardsInNumericOrder ==
    \A i \in 1..Len(kms.cards) : \A j \in 1..Len(kms.cards) :
        i < j => kms.cards[i] < kms.cards[j]

\* what read_text hands back for a key that is not present
AbsentResult == read_text([state |-> "absent", data |-> <<>>])

\* C18: read_text hands back the content for a readable key, one sentinel
\* for a key that is not present, and a different sentinel for a key that is
\* present but cannot be read.
C18_ReadTextThreeOutcomes ==
    pc = "fn_done" =>
        /\ fin.state = "readable" => (fout.ok /\ fout # AbsentResult)
        /\ fin.state = "absent" => (~fout.ok /\ fout = AbsentResult)
        /\ fin.state \in {"permission", "ioerror"} => (~fout.ok /\ fout # AbsentResult)

\* the attempted tracefs writes that ended with a permission error
PermissionDeniedWrites ==
    { i \in 1..Len(tracefs.writes) : tracefs.writes[i].res = "PermissionError" }

PermissionDeniedEntry == Note("NONE", 6, "permission_denied")

\* a permission error in a write of the capture sequence itself (the writes
\* of "0"/"1" to tracing_on, of "" to trace, of "1" to an enable file)
CaptureWriteDenied ==
    \E i \in PermissionDeniedWrites :
        ~(tracefs.writes[i].f = "enable" /\ tracefs.writes[i].d = "0")

\* a permission error in one of the closing writes of "0" to an enable file
DisableWriteDenied ==
    \E i \in PermissionDeniedWrites :
        tracefs.writes[i].f = "enable" /\ tracefs.writes[i].d = "0"

\* what a permission error must not do to the run: leave run_flow_kms as an
\* exception, or make the process end with a failure that no other exception
\* and no hard gate accounts for
PermissionErrorContained ==
    /\ exc # "PermissionError"
    /\ ((pc = "done" /\ exitCode # 0) => (exc # "none" \/ ret = "2"))

\* C19: once a write to tracing_on, trace or an event enable switch has
\* failed with a permission error during the vblank probe, the evidence holds
\* a line reporting it, the error has not left run_flow_kms, and the process
\* exit code is not a failure on its account.
C19_PermissionFailureIsEvidence ==
    PermissionDeniedWrites # {} =>
        /\ Has(log, PermissionDeniedEntry)
        /\ PermissionErrorContained

\* check_framebuffer_flips has returned or raised
FlipProbeOver == pc = "fn_done"

\* capture_drm_trace got as far as switching tracing on
CaptureStarted == Has(tracefs.writes, Wr("tracing_on", 0, "1", "ok"))

\* the vblank probe is over: run_flow_kms has reported it
VblankReported ==
    Has(log, Note("PASS", 6, "vblank_event_count")) \/ Has(log, Note("FAIL", 6, "no_vblank"))

\* C20 (for N >= 1; the wait precedes each read after the first): the flip
\* probe performs at most N-1 waits, exactly N-1 when every sample is
\* readable, exactly t when the first t >= 1 samples are readable and the
\* next one is not (fewer than N-1 unless the unreadable one is the last),
\* and none when the first read fails; the vblank probe performs at most one
\* wait, exactly one once the capture was started and none otherwise.
C20_WaitsBounded ==
    /\ (FlipProbeOver /\ fin.samples >= 1) =>
          LET t == SamplesTaken(fin.reads, fin.samples) IN
          /\ fout.waits <= fin.samples - 1
          /\ fout.waits = (IF t = fin.samples THEN fin.samples - 1 ELSE t)
    /\ tr.waits = (IF CaptureStarted /\ pc # "tr_sleep" THEN 1 ELSE 0)

\* C20 as stated: at most N-1 waits, exactly N-1 when every sample is
\* readable, fewer when a sample read fails, none when the first read fails;
\* and a vblank probe that is over has waited exactly once.
C20_WaitsAsStated ==
    /\ FlipProbeOver =>
          LET n == fin.samples
              readable == \A j \in DOMAIN fin.reads : fin.reads[j].ok
          IN  /\ fout.waits <= n - 1
              /\ readable => fout.waits = n - 1
              /\ ~readable => fout.waits < n - 1
              /\ ~fin.reads[1].ok => fout.waits = 0
    /\ VblankReported => tr.waits = 1

\* three samples asked for, only the third unreadable: two waits
C20_Witness ==
    /\ FlipProbeOver
    /\ fin.samples = 3
    /\ fin.reads[1].ok /\ fin.reads[2].ok /\ ~fin.reads[3].ok
    /\ fout.waits = 2

\* position in the write sequence of the write that switched tracing on
StartIndex ==
    CHOOSE i \in 1..Len(tracefs.writes) : tracefs.writes[i] = Wr("tracing_on", 0, "1", "ok")

IsEnableWrite(w) == w.f = "enable" /\ w.d = "1"

IsDisableWrite(w) == w.f = "enable" /\ w.d = "0"

\* control points of capture_drm_trace after the closing disable writes
AfterCleanup == {"tr_read", "vb_report", "flips", "psr", "done"}

\* C21: in a capture_drm_trace run that reached the capture step, the first
\* write set tracing_on to 0 and the second cleared the trace buffer; the
\* writes between them and the switching on of tracing are exactly the
\* enables of the events whose enable file exists, in the order of the event
\* list; no event is enabled after tracing_on was set to 1; nothing is
\* written during the wait and the next write after it sets tracing_on to 0;
\* the line count is read when that write has succeeded and no switch has
\* been disabled yet, the disabling writes coming only after it.
C21_CaptureWriteOrder ==
    CaptureStarted =>
        LET w == tracefs.writes
            s == StartIndex
        IN  /\ w[1] = Wr("tracing_on", 0, "0", "ok")
            /\ w[2] = Wr("trace", 0, "", "ok")
            /\ \A i \in 3..(s - 1) :
                  /\ IsEnableWrite(w[i]) /\ w[i].res = "ok"
                  /\ w[i].ev \in tracefs.files
                  /\ \A j \in 3..(i - 1) : w[j].ev < w[i].ev
            /\ {w[i].ev : i \in 3..(s - 1)} = tracefs.files
            /\ \A i \in s..Len(w) : ~IsEnableWrite(w[i])
            /\ pc = "tr_sleep" => (Len(w) = s /\ tr.waits = 0)
            /\ Len(w) > s => (tr.waits = 1 /\ w[s + 1].f = "tracing_on" /\ w[s + 1].d = "0")
            /\ pc \in {"tr_count", "tr_cleanup"} =>
                  (Len(w) = s + 1 /\ w[s + 1].res = "ok")
            /\ \A i \in 1..Len(w) :
                  IsDisableWrite(w[i]) =>
                      (i > s + 1 /\ w[s + 1].res = "ok" /\ pc \in AfterCleanup)

\* two of the three events have an enable file; the capture ran up to the
\* reading of the line count, before any switch is disabled
C21_Witness ==
    /\ CaptureStarted
    /\ pc = "tr_cleanup"
    /\ tracefs.files = {2, 3}
    /\ Len(tracefs.writes) = 6
    /\ tr.line_count = 3

====
